---- MODULE Spec2Model ----
(***************************************************************************)
(* Model of xgendoc.py, the generator of the Gofem HTML documentation:     *)
(* the registry of packages, the page and index templates, the shell       *)
(* commands run through Cmd (echo with > and >>, godoc, sed -i) and the    *)
(* order in which the script runs them.                                    *)
(*                                                                         *)
(* Text is a sequence of tokens.  A token is a run of characters that no   *)
(* sed pattern of the script can cut: the characters the patterns are      *)
(* sensitive to ("/", the double quote, "src", "target", the repository    *)
(* root, the two-character names) are tokens of their own.  A file that    *)
(* does not exist is represented by the empty content.                     *)
(***************************************************************************)
EXTENDS Naturals, Sequences, FiniteSets

\* ------------------------------------------------------------------ bounds
\* number of registry records the modelled run processes
NumPkgs == 3
\* largest number of pieces an enumerated file content is made of
MaxPieces == 3
\* number of Cmd calls of the run modelled at the level of the pipes
NumCmds == 2
\* largest number of writes a command makes before it exits
MaxWrite == 3
\* number of writes a pipe holds before the next write to it blocks
PipeCap == 2

\* ------------------------------------------------------------------ tokens
DQ == "\""
BSQ == "\\\""
NL == "\n"
SL == "/"
ROOT == "github.com/cpmech/gofem"
\* a text that the regular expression github.com (where . is any character)
\* matches and that is not the repository root
ROOTX == "githubXcom/cpmech/gofem"
PARENT == ".."
\* two-character names: the parent directory and an ordinary directory
TwoChars == {PARENT, "go"}

\* ---------------------------------------------------------------- registry
AllPkgs ==
  << [id |-> <<"ana">>, desc |-> "analytical solutions"],
     [id |-> <<"shp">>, desc |-> "shape (interpolation) structures and quadrature points"],
     [id |-> <<"mdl", SL, "generic">>, desc |-> "generic models (placeholder for parameters set)"],
     [id |-> <<"mdl", SL, "solid">>, desc |-> "models for solids"],
     [id |-> <<"mdl", SL, "fluid">>, desc |-> "models for fluids (liquid / gas)"],
     [id |-> <<"mdl", SL, "conduct">>, desc |-> "models for liquid conductivity within porous media"],
     [id |-> <<"mdl", SL, "retention">>, desc |-> "models for liquid retention within porous media"],
     [id |-> <<"mdl", SL, "diffusion">>, desc |-> "models for diffusion applications"],
     [id |-> <<"mdl", SL, "thermomech">>, desc |-> "models for thermo-mechanical applications"],
     [id |-> <<"mdl", SL, "porous">>, desc |-> "models for porous media (TPM-based)"],
     [id |-> <<"inp">>, desc |-> "input data (.sim = simulation, .mat = materials, .msh = meshes)"],
     [id |-> <<"ele">>, desc |-> "finite elements"],
     [id |-> <<"ele", SL, "solid">>, desc |-> "elements for solid mechanics"],
     [id |-> <<"ele", SL, "seepage">>, desc |-> "elements for seepage problems (with liquid and/or gases)"],
     [id |-> <<"ele", SL, "diffusion">>, desc |-> "elements for diffusion(-like) problems"],
     [id |-> <<"ele", SL, "thermomech">>, desc |-> "elements for thermo-mechanical applications"],
     [id |-> <<"ele", SL, "porous">>, desc |-> "elements for porous media simulations (TPM)"],
     [id |-> <<"fem">>, desc |-> "finite element method (main, domain, solver, ...)"],
     [id |-> <<"tests">>, desc |-> "(unit) tests of complete simulations"],
     [id |-> <<"tests", SL, "solid">>, desc |-> "tests of solid mechanics applications"],
     [id |-> <<"tests", SL, "seepage">>, desc |-> "tests of seepage problems"],
     [id |-> <<"tests", SL, "diffusion">>, desc |-> "tests of diffusion problems"],
     [id |-> <<"tests", SL, "thermomech">>, desc |-> "tests of thermo-mechanical applications"],
     [id |-> <<"tests", SL, "porous">>, desc |-> "tests of porous media simulations"],
     [id |-> <<"out">>, desc |-> "output routines (post-processing and plotting)"] >>

\* The records of the registry the modelled run processes, in registry order:
\* one without subdirectories, one with a "/" in its identifier and one
\* subdirectory, one with five subdirectories, then records with two.
Sample == <<1, 4, 12, 20, 25>>

pkgs == [k \in 1..NumPkgs |-> AllPkgs[Sample[k]]]

odir == <<"doc/">>
idxfn == odir \o <<"index.html">>
licen == <<"LICENSE text">>

\* ---------------------------------------------------------------- templates
header(title) ==
  << "<html>", NL, "<head>", NL,
     "<meta http-equiv=", BSQ, "Content-Type", BSQ, " content=", BSQ,
        "text/html; charset=utf-8", BSQ, ">", NL,
     "<meta name=", BSQ, "viewport", BSQ, " content=", BSQ,
        "width=device-width, initial-scale=1", BSQ, ">", NL,
     "<meta name=", BSQ, "theme-color", BSQ, " content=", BSQ, "#375EAB", BSQ, ">", NL,
     "<title>" >> \o title \o << "</title>", NL,
     "<link type=", BSQ, "text/css", BSQ, " rel=", BSQ, "stylesheet", BSQ,
        " href=", BSQ, "static/style.css", BSQ, ">", NL,
     "<script type=", BSQ, "text/javascript", BSQ, " src=", BSQ,
        "static/godocs.js", BSQ, ">", "</script>", NL,
     "<style type=", BSQ, "text/css", BSQ, ">", "</style>", NL,
     "</head>", NL, "<body>", NL,
     "<div id=", BSQ, "page", BSQ, " class=", "\\wide", BSQ, ">", NL,
     "<div class=", BSQ, "container", BSQ, ">", NL >>

footer ==
  << NL, "<div id=", BSQ, "footer", BSQ, ">", NL,
     "<br /><br />", NL, "<hr>", NL,
     "<pre class=", BSQ, "copyright", BSQ, ">", NL >> \o licen \o
  << "</pre><!-- copyright -->", NL, "</div><!-- footer -->", NL, NL,
     "</div><!-- container -->", NL, "</div><!-- page -->", NL,
     "</body>", NL, "</html>" >>

pkgheader(pkg) ==
  header(<<"Gofem &ndash; package ">> \o pkg.id)
    \o <<"<h1>Gofem &ndash; <b>">> \o pkg.id \o <<"</b> &ndash; ", pkg.desc, "</h1>">>

\* str.replace(a, b) on a text whose occurrences of a are single tokens
ReplaceNone(s, a, b) == s

Replace(s, a, b) == [k \in 1..Len(s) |-> IF s[k] = a THEN b ELSE s[k]]

fnkOf(pkg) == Replace(pkg.id, SL, "-")

pkgitem(pkg) ==
  <<"<dd>", "<a href=", BSQ, "xx">> \o fnkOf(pkg) \o <<".html", BSQ, ">", "<b>">>
    \o pkg.id \o <<"</b>: ", pkg.desc, "</a>", "</dd>">>

fnOf(pkg) == odir \o <<"xx">> \o fnkOf(pkg) \o <<".html">>

IndexTitle == <<"Gofem &ndash; Documentation">>
IndexH1 == <<"<h1>Gofem &ndash; Documentation</h1>">>
IndexOpen ==
  <<"<h2 id=", BSQ, "pkg-index", BSQ, ">", "Index</h2>", NL,
    "<div id=", BSQ, "manual-nav", BSQ, ">", NL, "<dl>">>
IndexClose == <<"</dl>", NL, "</div><!-- manual-nav -->">>

\* ------------------------------------------------------------------- shell
\* What the shell makes of one token of a double-quoted word: \" is a quote.
\* (The words the script builds hold no unescaped quote, dollar or backquote;
\* the licence text is taken to hold none either.)
Unescape(s) == [k \in 1..Len(s) |-> IF s[k] = BSQ THEN DQ ELSE s[k]]

\* echo "s": the word after quote removal, and a newline
Echo(s) == Unescape(s) \o <<NL>>

\* command > file and command >> file
RedirectAlwaysAppend(mode, old, data) == old \o data

Redirect(mode, old, data) == IF mode = ">" THEN data ELSE old \o data

\* --------------------------------------------------------------------- sed
\* one character class of the patterns: "." matches any character
TokMatch(p, t) ==
  \/ p = t
  \/ p = ROOT /\ t = ROOTX
  \/ p = PARENT /\ t \in TwoChars

MatchAt(pat, text, k) ==
  /\ k + Len(pat) - 1 <= Len(text)
  /\ \A n \in 1..Len(pat) : TokMatch(pat[n], text[k + n - 1])

\* the first match at or after position k (0: none)
NextMatch(pat, text, k) ==
  LET M == {m \in k..Len(text) : MatchAt(pat, text, m)}
  IN  IF M = {} THEN 0 ELSE CHOOSE m \in M : \A n \in M : m <= n

\* s@pat@rep@g: the leftmost matches, none overlapping an earlier one
RECURSIVE SedFrom(_, _, _, _)
SedFrom(pat, rep, text, k) ==
  LET m == NextMatch(pat, text, k)
  IN  IF m = 0 THEN SubSeq(text, k, Len(text))
      ELSE SubSeq(text, k, m - 1) \o rep \o SedFrom(pat, rep, text, m + Len(pat))

SedFirstOnly(pat, rep, text) ==
  LET m == NextMatch(pat, text, 1)
  IN  IF m = 0 THEN text
      ELSE SubSeq(text, 1, m - 1) \o rep \o SubSeq(text, m + Len(pat), Len(text))

Sed(pat, rep, text) == SedFrom(pat, rep, text, 1)

BlobUrl == <<"https:", SL, SL, ROOT, SL, "blob", SL, "master", SL>>
TreeUrl == <<"https:", SL, SL, ROOT, SL, "tree", SL, "master", SL>>

Pat1Short == <<SL, "src">>

Pat1 == <<SL, "src", SL, "target">>
Rep1(id) == BlobUrl \o id
Pat2 == <<SL, "src", SL, ROOT, SL>>
Rep2 == BlobUrl
Pat3(sub) == <<"<a href=", DQ, sub, SL, DQ, ">">>
Rep3(id, sub) == <<"<a href=", DQ>> \o TreeUrl \o id \o <<SL, sub, DQ, ">">>
Pat4 == <<"<td colspan=", DQ, "2", DQ, ">", "<a href=", DQ, PARENT, DQ, ">",
          PARENT, "</a>", "</td>">>
Rep4 == <<"<td>", "</td>">>

SubdirNames == {"data", "cmp", "diffusion", "porous", "seepage", "solid", "thermomech"}

subdirsOf(id) ==
  CASE id = <<"mdl", SL, "solid">> -> <<"data">>
    [] id = <<"mdl", SL, "porous">> -> <<"data">>
    [] id = <<"inp">> -> <<"data">>
    [] id = <<"ele">> -> <<"diffusion", "porous", "seepage", "solid", "thermomech">>
    [] id = <<"ele", SL, "solid">> -> <<"data">>
    [] id = <<"ele", SL, "seepage">> -> <<"data">>
    [] id = <<"ele", SL, "diffusion">> -> <<"data">>
    [] id = <<"ele", SL, "porous">> -> <<"data">>
    [] id = <<"fem">> -> <<"data">>
    [] id = <<"tests">> -> <<"data", "diffusion", "porous", "seepage", "solid", "thermomech">>
    [] id = <<"tests", SL, "solid">> -> <<"cmp", "data">>
    [] id = <<"tests", SL, "seepage">> -> <<"data">>
    [] id = <<"tests", SL, "diffusion">> -> <<"data">>
    [] id = <<"tests", SL, "thermomech">> -> <<"data">>
    [] id = <<"tests", SL, "porous">> -> <<"data">>
    [] id = <<"out">> -> <<"cmp", "data">>
    [] OTHER -> <<>>

Rule1(id, text) == Sed(Pat1, Rep1(id), text)
Rule2(text) == Sed(Pat2, Rep2, text)
Rule3One(id, sub, text) == Sed(Pat3(sub), Rep3(id, sub), text)

RECURSIVE Rule3From(_, _, _, _)
Rule3From(id, subs, n, text) ==
  IF n > Len(subs) THEN text
  ELSE Rule3From(id, subs, n + 1, Rule3One(id, subs[n], text))

Rule3FirstOnly(id, text) ==
  IF subdirsOf(id) = <<>> THEN text ELSE Rule3One(id, subdirsOf(id)[1], text)

\* the inner loop of the script: one sed per configured subdirectory
Rule3(id, text) == Rule3From(id, subdirsOf(id), 1, text)
Rule4(text) == Sed(Pat4, Rep4, text)

\* the four rules in the order of the script
FixLinks(id, text) == Rule4(Rule3(id, Rule2(Rule1(id, text))))


\* ------------------------------------------------------------------- state
VARIABLES
  pc,          \* the statement of the script that runs next
  i,           \* the index in pkgs of the record of the loop (0 outside the loop)
  j,           \* the index of the subdirectory of the inner loop (0 outside it)
  fs,          \* the content of each output file
  fs0,         \* history: the content of each output file before the run
  unwritable,  \* the output files the shell cannot open for writing
  steps,       \* history: the commands run so far, in order
  wlog,        \* history: per file, the kinds of the writes that reached it
  out,         \* history: per record, what godoc wrote to its standard output
  exits,       \* history: per record, the exit status of godoc
  fid,         \* link fixer alone: the index of the record
  ftext0,      \* link fixer alone: the file before the first rule
  ftext,       \* link fixer alone: the file now
  fstep,       \* link fixer alone: the number of rules applied
  cpc,         \* Cmd alone: the statement of Cmd that runs next
  cidx,        \* Cmd alone: the number of the call
  prog,        \* Cmd alone: what the command has still to write, in order
  child,       \* Cmd alone: whether the command is running
  pipeOut,     \* Cmd alone: the content of the stdout pipe
  pipeErr,     \* Cmd alone: the content of the stderr pipe
  gotOut,      \* Cmd alone: what spr.stdout.read() has read
  gotErr,      \* Cmd alone: what spr.stderr.read() has read
  sentOut,     \* Cmd alone, history: what the command wrote to stdout
  sentErr,     \* Cmd alone, history: what the command wrote to stderr
  ret          \* Cmd alone: the pair Cmd returned

mainVars == <<pc, i, j, fs, fs0, unwritable, steps, wlog, out, exits>>
fixVars == <<fid, ftext0, ftext, fstep>>
cmdVars == <<cpc, cidx, prog, child, pipeOut, pipeErr, gotOut, gotErr, sentOut, sentErr, ret>>
vars == <<mainVars, fixVars, cmdVars>>

OutPaths == {idxfn} \cup {fnOf(pkgs[k]) : k \in 1..NumPkgs}

\* what an earlier run, or anything else, left in an output file
Stale == <<"content of an earlier run">>

\* ----------------------------------------------------------------- godoc
Stub == <<"<p>stub</p>">>

\* what godoc -html prints for a subdirectory of the package
DirAnchor(name) == <<"<a href=", DQ, name, SL, DQ, ">">>

\* the row godoc -html prints for a directory with a two-character name
\* (".." is the parent directory)
DirRow(name) ==
  <<"<td colspan=", DQ, "2", DQ, ">", "<a href=", DQ, name, DQ, ">", name, "</a>", "</td>">>

Listing ==
  <<"<a href=", DQ, SL, "src", SL, "target", SL, "doc.go", DQ, ">", "doc.go", "</a>",
    "<a href=", DQ, SL, "src", SL, ROOT, SL, "fem", DQ, ">", "fem", "</a>">>
  \o DirAnchor("data") \o <<"data", "</a>">>
  \o DirAnchor("cmp") \o <<"cmp", "</a>">>
  \o DirRow(PARENT)
  \o DirRow("go")
  \o <<"<a href=", DQ, SL, "src", SL, ROOTX, SL, "x", DQ, ">", "x", "</a>">>

\* godoc is a black box: it succeeds with some fragment, fails having written
\* part of one, or is not found (the shell's exit status 127, no output)
GodocOutcomes ==
  { [exit |-> 0, frag |-> Stub],
    [exit |-> 0, frag |-> Listing],
    [exit |-> 1, frag |-> SubSeq(Listing, 1, 16)],
    [exit |-> 127, frag |-> <<>>] }

\* ------------------------------------------------------------ control flow
At(label, rec, sub) == [pc |-> label, i |-> rec, j |-> sub]

OrderFooterBeforeGodoc == <<"pagehead", "pagefoot", "godoc", "idxitem", "sed1", "sed2">>

OrderFixBeforeFooter == <<"pagehead", "godoc", "sed1", "pagefoot", "idxitem", "sed2">>

\* the statements of the loop body up to the inner loop, in source order
BodyOrder == <<"pagehead", "godoc", "pagefoot", "idxitem", "sed1", "sed2">>

PosIn(seq, x) == CHOOSE n \in 1..Len(seq) : seq[n] = x

\* the statement that follows a statement, in the order of the script
Follow(label, rec, sub) ==
  CASE label = "idxhead" -> At("idxh1", 0, 0)
    [] label = "idxh1" -> At("idxopen", 0, 0)
    [] label = "idxopen" -> At(BodyOrder[1], 1, 0)
    [] label \in {BodyOrder[n] : n \in 1..(Len(BodyOrder) - 1)} ->
         At(BodyOrder[PosIn(BodyOrder, label) + 1], rec, 0)
    [] label = BodyOrder[Len(BodyOrder)] ->
         IF Len(subdirsOf(pkgs[rec].id)) > 0 THEN At("sed3", rec, 1) ELSE At("sed4", rec, 0)
    [] label = "sed3" ->
         IF sub < Len(subdirsOf(pkgs[rec].id)) THEN At("sed3", rec, sub + 1)
         ELSE At("sed4", rec, 0)
    [] label = "sed4" ->
         IF rec < Len(pkgs) THEN At(BodyOrder[1], rec + 1, 0) ELSE At("idxclose", 0, 0)
    [] label = "idxclose" -> At("idxfoot", 0, 0)
    [] OTHER -> At("done", 0, 0)

AfterCmdRaiseOnWriteError(exit, nxt) ==
  IF exit \in {2, 4} THEN At("aborted", nxt.i, nxt.j) ELSE nxt

AfterCmdChecked(exit, nxt) == IF exit = 0 THEN nxt ELSE At("aborted", nxt.i, nxt.j)

\* Cmd returns (out, err) whatever the exit status of the command, and the
\* script drops the pair: the next statement runs
AfterCmd(exit, nxt) == nxt

\* one statement Cmd(...) of the script: its command has run with this exit
\* status and has made of the file at path this content
Ran(label, path, content, kind, exit) ==
  /\ fs' = [fs EXCEPT ![path] = content]
  /\ wlog' = [wlog EXCEPT ![path] = IF path \in unwritable THEN @ ELSE Append(@, kind)]
  /\ steps' = Append(steps, At(label, i, j))
  /\ LET n == AfterCmd(exit, Follow(label, i, j))
     IN  pc' = n.pc /\ i' = n.i /\ j' = n.j
  /\ UNCHANGED <<fs0, unwritable, fixVars, cmdVars>>

\* echo "s" > path, echo "s" >> path: the shell opens path first, and runs
\* nothing when it cannot
EchoTo(label, mode, path, s) ==
  IF path \in unwritable
  THEN Ran(label, path, fs[path], mode, 2)
  ELSE Ran(label, path, Redirect(mode, fs[path], Echo(s)), mode, 0)

\* sed -i -e 's@pat@rep@g' path
SedInPlace(label, path, fixed) ==
  IF path \in unwritable
  THEN Ran(label, path, fs[path], "edit", 4)
  ELSE Ran(label, path, fixed, "edit", 0)

IdxHead ==
  /\ pc = "idxhead"
  /\ EchoTo("idxhead", ">", idxfn, header(IndexTitle))
  /\ UNCHANGED <<out, exits>>

IdxH1 ==
  /\ pc = "idxh1"
  /\ EchoTo("idxh1", ">>", idxfn, IndexH1)
  /\ UNCHANGED <<out, exits>>

IdxOpen ==
  /\ pc = "idxopen"
  /\ EchoTo("idxopen", ">>", idxfn, IndexOpen)
  /\ UNCHANGED <<out, exits>>

PageHead ==
  /\ pc = "pagehead"
  /\ EchoTo("pagehead", ">", fnOf(pkgs[i]), pkgheader(pkgs[i]))
  /\ UNCHANGED <<out, exits>>

Godoc ==
  /\ pc = "godoc"
  /\ LET fn == fnOf(pkgs[i])
     IN  IF fn \in unwritable
         THEN /\ Ran("godoc", fn, fs[fn], ">>", 2)
              /\ exits' = [exits EXCEPT ![i] = 2]
              /\ UNCHANGED out
         ELSE \E r \in GodocOutcomes :
                /\ Ran("godoc", fn, Redirect(">>", fs[fn], r.frag), ">>", r.exit)
                /\ out' = [out EXCEPT ![i] = r.frag]
                /\ exits' = [exits EXCEPT ![i] = r.exit]

PageFoot ==
  /\ pc = "pagefoot"
  /\ EchoTo("pagefoot", ">>", fnOf(pkgs[i]), footer)
  /\ UNCHANGED <<out, exits>>

IdxItem ==
  /\ pc = "idxitem"
  /\ EchoTo("idxitem", ">>", idxfn, pkgitem(pkgs[i]))
  /\ UNCHANGED <<out, exits>>

FixSrcTarget ==
  /\ pc = "sed1"
  /\ SedInPlace("sed1", fnOf(pkgs[i]), Rule1(pkgs[i].id, fs[fnOf(pkgs[i])]))
  /\ UNCHANGED <<out, exits>>

FixSrcRoot ==
  /\ pc = "sed2"
  /\ SedInPlace("sed2", fnOf(pkgs[i]), Rule2(fs[fnOf(pkgs[i])]))
  /\ UNCHANGED <<out, exits>>

FixSubdir ==
  /\ pc = "sed3"
  /\ SedInPlace("sed3", fnOf(pkgs[i]),
                Rule3One(pkgs[i].id, subdirsOf(pkgs[i].id)[j], fs[fnOf(pkgs[i])]))
  /\ UNCHANGED <<out, exits>>

FixParent ==
  /\ pc = "sed4"
  /\ SedInPlace("sed4", fnOf(pkgs[i]), Rule4(fs[fnOf(pkgs[i])]))
  /\ UNCHANGED <<out, exits>>

IdxClose ==
  /\ pc = "idxclose"
  /\ EchoTo("idxclose", ">>", idxfn, IndexClose)
  /\ UNCHANGED <<out, exits>>

IdxFoot ==
  /\ pc = "idxfoot"
  /\ EchoTo("idxfoot", ">>", idxfn, footer)
  /\ UNCHANGED <<out, exits>>

FixIdle == fid = 0 /\ ftext0 = <<>> /\ ftext = <<>> /\ fstep = 0

CmdIdle ==
  /\ cpc = "idle" /\ cidx = 0 /\ prog = <<>> /\ child = FALSE
  /\ pipeOut = <<>> /\ pipeErr = <<>> /\ gotOut = <<>> /\ gotErr = <<>>
  /\ sentOut = <<>> /\ sentErr = <<>> /\ ret = <<>>

MainStart ==
  /\ pc = "idxhead" /\ i = 0 /\ j = 0
  /\ \E old \in {<<>>, Stale} : fs = [p \in OutPaths |-> old]
  /\ fs0 = fs
  /\ steps = <<>>
  /\ wlog = [p \in OutPaths |-> <<>>]
  /\ out = [k \in 1..NumPkgs |-> <<>>]
  /\ exits = [k \in 1..NumPkgs |-> 0]

\* a run in a directory the shell can write to
Init == MainStart /\ unwritable = {} /\ FixIdle /\ CmdIdle

\* a run in a directory where some output files cannot be written
InitFs == MainStart /\ unwritable \in SUBSET OutPaths /\ FixIdle /\ CmdIdle

Next ==
  \/ IdxHead \/ IdxH1 \/ IdxOpen
  \/ PageHead \/ Godoc \/ PageFoot \/ IdxItem
  \/ FixSrcTarget \/ FixSrcRoot \/ FixSubdir \/ FixParent
  \/ IdxClose \/ IdxFoot

Spec == Init /\ [][Next]_vars

SpecFs == InitFs /\ [][Next]_vars


\* ====================================================== properties of a run
Done == pc = "done"

Records == 1..NumPkgs

PageOf(k) == fs[fnOf(pkgs[k])]

\* the three chunks of the page of record k, as the shell wrote them
RawPage(k) == Echo(pkgheader(pkgs[k])) \o out[k] \o Echo(footer)

RECURSIVE CountFrom(_, _, _)
CountFrom(pat, text, k) ==
  LET m == NextMatch(pat, text, k)
  IN  IF m = 0 THEN 0 ELSE 1 + CountFrom(pat, text, m + Len(pat))

\* the number of matches of a pattern in a text, as sed counts them
Count(pat, text) == CountFrom(pat, text, 1)

\* the commands of a complete run, in order, whatever their exit statuses
RecordProgram(k) ==
  <<At("pagehead", k, 0), At("godoc", k, 0), At("pagefoot", k, 0),
    At("idxitem", k, 0), At("sed1", k, 0), At("sed2", k, 0)>>
  \o [n \in 1..Len(subdirsOf(pkgs[k].id)) |-> At("sed3", k, n)]
  \o <<At("sed4", k, 0)>>

RECURSIVE LoopProgram(_)
LoopProgram(n) == IF n = 0 THEN <<>> ELSE LoopProgram(n - 1) \o RecordProgram(n)

Program ==
  <<At("idxhead", 0, 0), At("idxh1", 0, 0), At("idxopen", 0, 0)>>
  \o LoopProgram(NumPkgs)
  \o <<At("idxclose", 0, 0), At("idxfoot", 0, 0)>>

\* C1: after a complete run, the page of every record is its page header, then
\* what godoc wrote for that record, then the footer with the licence text,
\* each chunk once and in this order, with the four link-fixing rules applied
\* to the whole; the header and the body are those of that record and of no
\* other.
C1_PageIsHeaderBodyFooter ==
  Done =>
    \A k \in Records :
      /\ PageOf(k) = FixLinks(pkgs[k].id, RawPage(k))
      /\ Count(<<"<title>">>, PageOf(k)) = 1
      /\ Count(<<"</html>">>, PageOf(k)) = 1
      /\ PageOf(k)[1] = "<html>"
      /\ PageOf(k)[Len(PageOf(k)) - 1] = "</html>"
      /\ Count(<<"<title>", "Gofem &ndash; package ">> \o pkgs[k].id \o <<"</title>">>,
               PageOf(k)) = 1

\* a complete run in which link fixing changed the page of a record whose
\* extractor output is a listing, and another record's page holds a stub
C1_Witness ==
  /\ Done
  /\ \E k \in Records : out[k] = Listing /\ PageOf(k) # RawPage(k)
  /\ \E k \in Records : out[k] = Stub

\* the flattened name of an identifier, as the claim states it
FlatName(id) == [n \in 1..Len(id) |-> IF id[n] = "/" THEN "-" ELSE id[n]]

LinkTarget(k) == <<"xx">> \o FlatName(pkgs[k].id) \o <<".html">>

IndexEntry(k) ==
  <<"<dd>", "<a href=", DQ>> \o LinkTarget(k) \o <<DQ, ">", "<b>">>
  \o pkgs[k].id \o <<"</b>: ", pkgs[k].desc, "</a>", "</dd>", NL>>

RECURSIVE IndexEntries(_)
IndexEntries(n) == IF n = 0 THEN <<>> ELSE IndexEntries(n - 1) \o IndexEntry(n)

ExpectedIndex ==
  Echo(header(IndexTitle)) \o Echo(IndexH1) \o Echo(IndexOpen)
    \o IndexEntries(NumPkgs)
    \o Echo(IndexClose) \o Echo(footer)

\* C2: after a complete run, the index file is the index header, the heading
\* and the section opener, then one entry per record in registry order, then
\* the listing close and the footer; the link target of each entry is "xx",
\* the identifier with every "/" replaced by "-", ".html", which is the name
\* in the output directory of the page written for that record.
C2_IndexListsEveryRecord ==
  Done =>
    /\ fs[idxfn] = ExpectedIndex
    /\ Count(<<"<dd>">>, fs[idxfn]) = NumPkgs
    /\ \A k \in Records :
         /\ odir \o LinkTarget(k) \in OutPaths
         /\ wlog[odir \o LinkTarget(k)] # <<>>
         /\ fs[odir \o LinkTarget(k)] = PageOf(k)
         /\ Count(<<"<title>", "Gofem &ndash; package ">> \o pkgs[k].id \o <<"</title>">>,
                  fs[odir \o LinkTarget(k)]) = 1

\* a complete run over a registry with an identifier that holds a "/"
C2_Witness ==
  /\ Done
  /\ \E k \in Records : SL \in {pkgs[k].id[n] : n \in 1..Len(pkgs[k].id)}
  /\ Len(fs[idxfn]) > 0

\* C4: a failing extractor never changes which command runs next: the commands
\* run so far are always the first commands of the complete program, the run
\* is never abandoned, a finished run has run every command of every record
\* and the finalization, and the page of a record whose extractor failed holds
\* the header and the footer around whatever the extractor wrote (nothing when
\* it was not found).
C4_FailureNeverAltersFlow ==
  /\ pc # "aborted"
  /\ Len(steps) <= Len(Program)
  /\ \A n \in 1..Len(steps) : steps[n] = Program[n]
  /\ ~Done => At(pc, i, j) = Program[Len(steps) + 1]
  /\ Done => Len(steps) = Len(Program)
  /\ Done => \A k \in Records :
       exits[k] # 0 =>
         /\ PageOf(k) = FixLinks(pkgs[k].id, RawPage(k))
         /\ exits[k] = 127 => out[k] = <<>>
         /\ Count(IndexEntry(k), fs[idxfn]) = 1

\* a complete run in which the extractor of the first record was not found,
\* that of the second failed after a partial output, and a later one succeeded
C4_Witness ==
  /\ Done
  /\ exits[1] = 127
  /\ exits[2] = 1 /\ out[2] # <<>>
  /\ exits[NumPkgs] = 0

InitOps == {"idxhead", "idxh1", "idxopen"}
FinalOps == {"idxclose", "idxfoot"}
FixOps == {"sed1", "sed2", "sed3", "sed4"}

Phase(s) == IF s.pc \in InitOps THEN 0 ELSE IF s.pc \in FinalOps THEN 2 ELSE 1

Rank(op) ==
  CASE op = "idxhead" -> 1 [] op = "idxh1" -> 2 [] op = "idxopen" -> 3
    [] op = "pagehead" -> 4 [] op = "godoc" -> 5 [] op = "pagefoot" -> 6
    [] op = "idxitem" -> 7 [] op = "sed1" -> 8 [] op = "sed2" -> 9
    [] op = "sed3" -> 10 [] op = "sed4" -> 11
    [] op = "idxclose" -> 12 [] OTHER -> 13

\* the order the claim states: initialization, then the records one after the
\* other, each with its steps in order, then the finalization
Before(a, b) ==
  \/ Phase(a) < Phase(b)
  \/ /\ Phase(a) = Phase(b)
     /\ \/ a.i < b.i
        \/ a.i = b.i /\ Rank(a.pc) < Rank(b.pc)
        \/ a.i = b.i /\ Rank(a.pc) = Rank(b.pc) /\ a.j < b.j

Ran3(op, k, n) == \E m \in 1..(n - 1) : steps[m].pc = op /\ steps[m].i = k

\* C8: the commands run one at a time in a fixed order: the index header
\* before any record; for each record the page header, the extractor, the
\* footer, the index entry, then the link-fixing rules (so a rule runs only
\* once the three chunks of its page are written); every command of a record
\* before any command of the next; the listing close and the footer of the
\* index after the last rule of the last record.
C8_StrictlySequential ==
  /\ \A m, n \in 1..Len(steps) : m < n => Before(steps[m], steps[n])
  /\ \A n \in 1..Len(steps) :
       /\ steps[n].pc \in FixOps =>
            /\ Ran3("pagehead", steps[n].i, n)
            /\ Ran3("godoc", steps[n].i, n)
            /\ Ran3("pagefoot", steps[n].i, n)
            /\ Ran3("idxitem", steps[n].i, n)
       /\ Phase(steps[n]) = 1 => Ran3("idxopen", 0, n)
       /\ steps[n].pc \in FinalOps => Ran3("sed4", NumPkgs, n)
       /\ (Phase(steps[n]) = 1 /\ steps[n].i > 1) => Ran3("sed4", steps[n].i - 1, n)
  /\ Done => \A k \in Records : Ran3("sed4", k, Len(steps))

\* a complete run: every record was processed and the index finalized
C8_Witness ==
  /\ Done
  /\ steps[Len(steps)].pc = "idxfoot"
  /\ \E n \in 1..Len(steps) : steps[n].pc = "sed3" /\ steps[n].j > 1

AllPaths == {idxfn} \cup {fnOf(AllPkgs[k]) : k \in 1..Len(AllPkgs)}

\* C10: every output file is truncated by the first write that reaches it and
\* by no later one (the later redirections append, the rules edit in place);
\* the records of the registry have distinct page paths, none the index path;
\* and after a complete run every file was truncated, holds nothing of what
\* it held before the run and is determined by the outputs of the extractor
\* alone.
C10_TruncatedOnceAndFresh ==
  /\ \A p \in OutPaths :
       wlog[p] # <<>> =>
         /\ wlog[p][1] = ">"
         /\ \A n \in 2..Len(wlog[p]) : wlog[p][n] \in {">>", "edit"}
  /\ Cardinality(AllPaths) = Len(AllPkgs) + 1
  /\ Cardinality(OutPaths) = NumPkgs + 1
  /\ Done => \A p \in OutPaths :
       /\ wlog[p] # <<>>
       /\ Count(Stale, fs[p]) = 0
       /\ fs[p][1] = "<html>"
       /\ fs[p] = IF p = idxfn THEN ExpectedIndex
                  ELSE LET k == CHOOSE n \in Records : fnOf(pkgs[n]) = p
                       IN  FixLinks(pkgs[k].id, RawPage(k))

\* a complete run that started with the files of an earlier run in place
C10_Witness ==
  /\ Done
  /\ \A p \in OutPaths : Len(wlog[p]) > 1
  /\ steps # <<>>
  /\ \E k \in Records : out[k] = Listing
  /\ Count(Stale, fs[idxfn]) = 0
  /\ \A p \in OutPaths : fs0[p] = Stale


\* ------------------------------------------------- failing writes (SpecFs)
\* the file a command of the run writes to
PathOfStep(s) ==
  IF s.pc \in InitOps \cup FinalOps \cup {"idxitem"} THEN idxfn ELSE fnOf(pkgs[s.i])

WriteFailed(n) == PathOfStep(steps[n]) \in unwritable

\* C5, as stated: a command whose write to a page file or to the index file
\* fails is the last command of the run (the run stops at the first such
\* failure).
C5_WriteFailureAborts ==
  \A n \in 1..Len(steps) : WriteFailed(n) => n = Len(steps)

\* C5, amended: a failed write does not stop the run: the command that
\* follows in the program runs next exactly as after a successful write, for
\* every later step of the record and every later record, and the run ends
\* only after the finalization.
C5_WriteFailureNeverAborts ==
  /\ pc # "aborted"
  /\ \A n \in 1..Len(steps) :
       WriteFailed(n) =>
         /\ n <= Len(Program)
         /\ n < Len(steps) => steps[n + 1] = Program[n + 1]
         /\ (n = Len(steps) /\ n < Len(Program)) => At(pc, i, j) = Program[n + 1]
         /\ (n = Len(steps) /\ n = Len(Program)) => Done
  /\ Done => Len(steps) = Len(Program)

\* a complete run in which the index file could not be written, the page of
\* the first record could, and the old index is still in place
C5_Witness ==
  /\ Done
  /\ idxfn \in unwritable
  /\ fnOf(pkgs[1]) \notin unwritable
  /\ fs[idxfn] = Stale
  /\ wlog[fnOf(pkgs[1])] # <<>>


\* ==================================================== the link fixer alone
\* The four rules applied, in the order of the script, to a file of any
\* content, and then applied a second time (eight applications in all).

\* pieces of text a file may hold
Pieces ==
  { Pat1,
    <<SL, "src", SL, ROOT>>,
    <<SL>>,
    DirAnchor("data"),
    DirAnchor("solid"),
    DirRow(PARENT) }

RECURSIVE Texts(_)
Texts(n) ==
  IF n = 0 THEN {<<>>}
  ELSE Texts(n - 1) \cup {t \o p_1 : t \in Texts(n - 1), p_1 \in Pieces}

MainIdle ==
  /\ pc = "idle" /\ i = 0 /\ j = 0
  /\ fs = [p \in OutPaths |-> <<>>] /\ fs0 = fs /\ unwritable = {}
  /\ steps = <<>> /\ wlog = [p \in OutPaths |-> <<>>]
  /\ out = [k \in 1..NumPkgs |-> <<>>] /\ exits = [k \in 1..NumPkgs |-> 0]

InitFix ==
  /\ MainIdle /\ CmdIdle
  /\ fid \in 1..NumPkgs
  /\ ftext0 \in Texts(MaxPieces)
  /\ ftext = ftext0
  /\ fstep = 0

Applied(text) ==
  /\ fstep < 8
  /\ ftext' = text
  /\ fstep' = fstep + 1
  /\ UNCHANGED <<fid, ftext0, mainVars, cmdVars>>

ApplyRule1 ==
  /\ fstep % 4 = 0
  /\ Applied(Rule1(pkgs[fid].id, ftext))

ApplyRule2 ==
  /\ fstep % 4 = 1
  /\ Applied(Rule2(ftext))

ApplyRule3 ==
  /\ fstep % 4 = 2
  /\ Applied(Rule3(pkgs[fid].id, ftext))

ApplyRule4 ==
  /\ fstep % 4 = 3
  /\ Applied(Rule4(ftext))

NextFix == ApplyRule1 \/ ApplyRule2 \/ ApplyRule3 \/ ApplyRule4

SpecFix == InitFix /\ [][NextFix]_vars

\* two matches of a pattern that share characters
Overlapping(pat, text) ==
  \E m \in 1..Len(text) :
    /\ MatchAt(pat, text, m)
    /\ \E n \in (m + 1)..(m + Len(pat) - 1) : MatchAt(pat, text, n)

\* C3, as stated: whatever the file, once the four rules have been applied,
\* applying them again changes nothing.
C3_Idempotent ==
  fstep >= 4 => ftext = FixLinks(pkgs[fid].id, ftext0)

\* C3, amended: applying the four rules again changes nothing, for every file
\* in which no two matches of the source-root pattern of rule 2 overlap (a
\* match followed by src/github.com/cpmech/gofem/, whose first "/" is the
\* last character of the match).
C3_IdempotentWithoutOverlap ==
  (fstep >= 4 /\ ~Overlapping(Pat2, ftext0)) => ftext = FixLinks(pkgs[fid].id, ftext0)

\* the rules were applied twice to a file they change, which holds a match of
\* rule 2 and none that overlaps another
C3_Witness ==
  /\ fstep = 8
  /\ ~Overlapping(Pat2, ftext0)
  /\ Count(Pat2, ftext0) > 0
  /\ Count(DirAnchor("data"), ftext0) > 0
  /\ ftext # ftext0

TreeAnchor(id, name) ==
  <<"<a href=", DQ, "https:", SL, SL, ROOT, SL, "tree", SL, "master", SL>>
  \o id \o <<SL, name, DQ, ">">>

Configured(id) == {subdirsOf(id)[n] : n \in 1..Len(subdirsOf(id))}

\* C6: once rule 3 has run, an anchor to name/ has become the anchor to the
\* tree URL of moduleId/name when name is configured for the record, and is
\* left as it was when it is not; no other anchor to a tree URL appears.
C6_SubdirAnchorsIffConfigured ==
  fstep >= 3 =>
    \A name \in SubdirNames :
      LET id == pkgs[fid].id
          before == Count(DirAnchor(name), ftext0)
          after == Count(DirAnchor(name), ftext)
          trees == Count(TreeAnchor(id, name), ftext)
      IN  IF name \in Configured(id)
          THEN after = 0 /\ trees = before
          ELSE after = before /\ trees = 0

\* rule 3 has run on a file of a record configured with "data" and not with
\* "solid" that holds an anchor to data/ and an anchor to solid/
C6_Witness ==
  /\ fstep >= 3
  /\ "data" \in Configured(pkgs[fid].id)
  /\ "solid" \notin Configured(pkgs[fid].id)
  /\ Count(DirAnchor("data"), ftext0) > 0
  /\ Count(DirAnchor("solid"), ftext0) > 0
  /\ Count(TreeAnchor(pkgs[fid].id, "data"), ftext) > 0

Perms == {q \in [1..4 -> 1..4] : \A a, b \in 1..4 : a # b => q[a] # q[b]}

ApplyRule(r, id, text) ==
  CASE r = 1 -> Rule1(id, text)
    [] r = 2 -> Rule2(text)
    [] r = 3 -> Rule3(id, text)
    [] OTHER -> Rule4(text)

ApplyInOrder(q, id, text) ==
  ApplyRule(q[4], id, ApplyRule(q[3], id, ApplyRule(q[2], id, ApplyRule(q[1], id, text))))

\* a match of rule 2 whose last "/" is the first character of a match of rule 1
Overlap12(text) ==
  \E m \in 1..Len(text) :
    MatchAt(Pat2, text, m) /\ MatchAt(Pat1, text, m + Len(Pat2) - 1)

\* C7, as stated: whatever the file, the four rules applied in any order give
\* the file the script's order gives.
C7_OrderIndependent ==
  fstep = 4 => \A q \in Perms : ApplyInOrder(q, pkgs[fid].id, ftext0) = ftext

\* C7, amended: the four rules applied in any order give the file the
\* script's order gives, for every file in which no match of rule 2 is
\* followed by src/target (so that its last "/" starts a match of rule 1).
C7_OrderIndependentWithoutOverlap ==
  (fstep = 4 /\ ~Overlap12(ftext0)) =>
    \A q \in Perms : ApplyInOrder(q, pkgs[fid].id, ftext0) = ftext

\* the rules have run once on a file that holds a match of rule 1, a match of
\* rule 2 and a parent row, none overlapping
C7_Witness ==
  /\ fstep = 4
  /\ ~Overlap12(ftext0)
  /\ Count(Pat1, ftext0) > 0
  /\ Count(Pat2, ftext0) > 0
  /\ ftext # ftext0


\* ================================================================ Cmd alone
\* Cmd at the level of the two pipes of subprocess.Popen: the command writes
\* to its standard output and standard error and exits, which closes the
\* write ends; Cmd reads standard output to end of file, then standard error
\* to end of file, strips the latter and returns the pair.

WS == " "

\* one write of a command: a unit of text to one of the two streams
Writes ==
  { [to |-> "out", data |-> "o"],
    [to |-> "err", data |-> "e"],
    [to |-> "err", data |-> WS] }

RECURSIVE Programs(_)
Programs(n) ==
  IF n = 0 THEN {<<>>}
  ELSE Programs(n - 1) \cup {q \o <<w>> : q \in Programs(n - 1), w \in Writes}

IsWs(t) == t \in {WS, NL}

\* str.strip(): the text without its leading and trailing white space
Strip(s) ==
  LET K == {n \in 1..Len(s) : ~IsWs(s[n])}
  IN  IF K = {} THEN <<>>
      ELSE SubSeq(s, CHOOSE a \in K : \A b \in K : a <= b,
                     CHOOSE a \in K : \A b \in K : a >= b)

InitCmd ==
  /\ MainIdle /\ FixIdle
  /\ cpc = "popen" /\ cidx = 0 /\ prog = <<>> /\ child = FALSE
  /\ pipeOut = <<>> /\ pipeErr = <<>> /\ gotOut = <<>> /\ gotErr = <<>>
  /\ sentOut = <<>> /\ sentErr = <<>> /\ ret = <<>>

\* spr = subprocess.Popen(command, shell=True, stdout=PIPE, stderr=PIPE)
Popen ==
  /\ cpc = "popen"
  /\ cidx < NumCmds
  /\ prog' \in Programs(MaxWrite)
  /\ child' = TRUE
  /\ cidx' = cidx + 1
  /\ cpc' = "readout"
  /\ pipeOut' = <<>> /\ pipeErr' = <<>> /\ gotOut' = <<>> /\ gotErr' = <<>>
  /\ sentOut' = <<>> /\ sentErr' = <<>>
  /\ UNCHANGED <<ret, mainVars, fixVars>>

\* the command writes to its standard output, when the pipe has room
ChildWriteOut ==
  /\ child /\ prog # <<>> /\ Head(prog).to = "out"
  /\ Len(pipeOut) < PipeCap
  /\ pipeOut' = Append(pipeOut, Head(prog).data)
  /\ sentOut' = Append(sentOut, Head(prog).data)
  /\ prog' = Tail(prog)
  /\ UNCHANGED <<cpc, cidx, child, pipeErr, gotOut, gotErr, sentErr, ret, mainVars, fixVars>>

\* the command writes to its standard error, when the pipe has room
ChildWriteErr ==
  /\ child /\ prog # <<>> /\ Head(prog).to = "err"
  /\ Len(pipeErr) < PipeCap
  /\ pipeErr' = Append(pipeErr, Head(prog).data)
  /\ sentErr' = Append(sentErr, Head(prog).data)
  /\ prog' = Tail(prog)
  /\ UNCHANGED <<cpc, cidx, child, pipeOut, gotOut, gotErr, sentOut, ret, mainVars, fixVars>>

\* the command exits: the write ends of both pipes are closed
ChildExit ==
  /\ child /\ prog = <<>>
  /\ child' = FALSE
  /\ UNCHANGED <<cpc, cidx, prog, pipeOut, pipeErr, gotOut, gotErr, sentOut, sentErr,
                 ret, mainVars, fixVars>>

\* out = spr.stdout.read(): takes what the pipe holds
ReadOut ==
  /\ cpc = "readout" /\ pipeOut # <<>>
  /\ gotOut' = gotOut \o pipeOut
  /\ pipeOut' = <<>>
  /\ UNCHANGED <<cpc, cidx, prog, child, pipeErr, gotErr, sentOut, sentErr, ret,
                 mainVars, fixVars>>

\* out = spr.stdout.read(): ends at end of file, when the pipe is empty and
\* its write end is closed
OutEof ==
  /\ cpc = "readout" /\ pipeOut = <<>> /\ ~child
  /\ cpc' = "readerr"
  /\ UNCHANGED <<cidx, prog, child, pipeOut, pipeErr, gotOut, gotErr, sentOut, sentErr,
                 ret, mainVars, fixVars>>

\* err = spr.stderr.read().strip(): takes what the pipe holds
ReadErr ==
  /\ cpc = "readerr" /\ pipeErr # <<>>
  /\ gotErr' = gotErr \o pipeErr
  /\ pipeErr' = <<>>
  /\ UNCHANGED <<cpc, cidx, prog, child, pipeOut, gotOut, sentOut, sentErr, ret,
                 mainVars, fixVars>>

\* err = spr.stderr.read().strip() ends at end of file; return out, err
ErrEofReturn ==
  /\ cpc = "readerr" /\ pipeErr = <<>> /\ ~child
  /\ ret' = <<gotOut, Strip(gotErr)>>
  /\ cpc' = IF cidx < NumCmds THEN "popen" ELSE "done"
  /\ UNCHANGED <<cidx, prog, child, pipeOut, pipeErr, gotOut, gotErr, sentOut, sentErr,
                 mainVars, fixVars>>

NextCmd ==
  \/ Popen \/ ChildWriteOut \/ ChildWriteErr \/ ChildExit
  \/ ReadOut \/ OutEof \/ ReadErr \/ ErrEofReturn

\* the operating system runs a process that can run
SpecCmd == InitCmd /\ [][NextCmd]_vars /\ WF_vars(NextCmd)

\* C9: every Cmd call returns, and the run of calls ends: unless the run has
\* ended, the command or Cmd can take a step.
C9_CmdAlwaysReturns == cpc = "done" \/ ENABLED NextCmd

====
